---------------------------- MODULE Spec2Model ----------------------------
(***************************************************************************)
(* BMC Navigator (src/bmc.py): the interactive session run_main_session    *)
(* drives, from client initialisation through plan generation, the         *)
(* question loop, the analysis call and the suggestions call.              *)
(*                                                                         *)
(* Texts are sequences of one-character strings, so that str.strip,        *)
(* str.lstrip(chars), str.lower, the substring test `in` and json.loads    *)
(* are computed character by character, as Python computes them.           *)
(***************************************************************************)
EXTENDS Integers, Sequences, FiniteSets, TLC

(***************************************************************************)
(* Bounds of the model.                                                    *)
(***************************************************************************)
\* longest plan the enumerated completion texts hold (besides the 9-block plan)
MaxPlanLen == 2

(***************************************************************************)
(* Text primitives (Python str methods).                                   *)
(* The grave accent U+0060 cannot be written inside a TLA+ string: the     *)
(* element BQ stands for that character.                                   *)
(***************************************************************************)
BQ == "BACKTICK"

\* characters str.strip() with no argument removes
Whitespace == {" ", "\n", "\t", "\r"}

RECURSIVE LStripSet(_, _)
\* str.lstrip(chars): drop leading characters while they are in the set chars
LStripSet(s, chars) ==
    IF s # <<>> /\ Head(s) \in chars THEN LStripSet(Tail(s), chars) ELSE s

RECURSIVE RStripSet(_, _)
\* str.rstrip(chars): drop trailing characters while they are in the set chars
RStripSet(s, chars) ==
    IF s # <<>> /\ s[Len(s)] \in chars
    THEN RStripSet(SubSeq(s, 1, Len(s) - 1), chars)
    ELSE s

\* str.strip()
Strip(s) == RStripSet(LStripSet(s, Whitespace), Whitespace)

\* the set of characters of a text: the meaning of the argument of lstrip/rstrip
CharSet(s) == {s[k] : k \in 1..Len(s)}

UPPER == <<"A","B","C","D","E","F","G","H","I","J","K","L","M","N","O","P","Q","R","S","T","U","V","W","X","Y","Z">>
LOWER == <<"a","b","c","d","e","f","g","h","i","j","k","l","m","n","o","p","q","r","s","t","u","v","w","x","y","z">>

LowerChar(c) ==
    IF \E k \in 1..Len(UPPER) : UPPER[k] = c
    THEN LOWER[CHOOSE k \in 1..Len(UPPER) : UPPER[k] = c]
    ELSE c

\* str.lower()
Lower(s) == [k \in 1..Len(s) |-> LowerChar(s[k])]

\* sub in s, for two texts
Contains(s, sub) ==
    \E k \in 0..(Len(s) - Len(sub)) : SubSeq(s, k + 1, k + Len(sub)) = sub

StartsWith(s, pre) == Len(s) >= Len(pre) /\ SubSeq(s, 1, Len(pre)) = pre

RECURSIVE Join(_, _)
\* sep.join(lines)
Join(lines, sep) ==
    IF lines = <<>> THEN <<>>
    ELSE IF Len(lines) = 1 THEN lines[1]
    ELSE lines[1] \o sep \o Join(Tail(lines), sep)

(***************************************************************************)
(* json.loads, for the fragment of JSON the enumerated texts use: arrays,  *)
(* objects, strings without escapes, unsigned integers, null, true, false. *)
(* A decoded value is [t |-> type, v |-> payload]; a dict keeps its pairs  *)
(* <<key, value>> in the order read.  A decoding step returns              *)
(* [ok, val, pos]: pos is the index after the value.                       *)
(***************************************************************************)
JsonWs == {" ", "\n", "\t", "\r"}
Digits == <<"0","1","2","3","4","5","6","7","8","9">>
IsDigit(c) == \E k \in 1..10 : Digits[k] = c
DigitVal(c) == (CHOOSE k \in 1..10 : Digits[k] = c) - 1
\* control characters a JSON string may not hold (strict mode)
JsonControl == {"\n", "\t", "\r"}

JNull == [t |-> "null", v |-> 0]
JBool(b) == [t |-> "bool", v |-> b]
JInt(n) == [t |-> "int", v |-> n]
JStr(s) == [t |-> "str", v |-> s]
JList(items) == [t |-> "list", v |-> items]
JDict(pairs) == [t |-> "dict", v |-> pairs]

JFail == [ok |-> FALSE, val |-> JNull, pos |-> 0]
JOk(val, pos) == [ok |-> TRUE, val |-> val, pos |-> pos]

RECURSIVE SkipWs(_, _)
SkipWs(s, i) == IF i <= Len(s) /\ s[i] \in JsonWs THEN SkipWs(s, i + 1) ELSE i

At(s, i) == IF i >= 1 /\ i <= Len(s) THEN s[i] ELSE "EOF"

RECURSIVE ScanString(_, _, _)
\* i is the index after the opening quote; acc the characters read so far
ScanString(s, i, acc) ==
    IF i > Len(s) THEN JFail
    ELSE IF s[i] = "\"" THEN JOk(JStr(acc), i + 1)
    ELSE IF s[i] \in JsonControl \/ s[i] = "\\" THEN JFail
    ELSE ScanString(s, i + 1, Append(acc, s[i]))

RECURSIVE ScanNumber(_, _, _)
ScanNumber(s, i, acc) ==
    IF i <= Len(s) /\ IsDigit(s[i])
    THEN ScanNumber(s, i + 1, 10 * acc + DigitVal(s[i]))
    ELSE JOk(JInt(acc), i)

Literal(s, i, word, val) ==
    IF i + Len(word) - 1 <= Len(s) /\ SubSeq(s, i, i + Len(word) - 1) = word
    THEN JOk(val, i + Len(word))
    ELSE JFail

RECURSIVE ScanValue(_, _)
RECURSIVE ScanArray(_, _, _)
RECURSIVE ScanObject(_, _, _)

\* i is the index of the first character of the value
ScanValue(s, i) ==
    LET c == At(s, i) IN
    IF c = "[" THEN
        LET j == SkipWs(s, i + 1) IN
        IF At(s, j) = "]" THEN JOk(JList(<<>>), j + 1) ELSE ScanArray(s, j, <<>>)
    ELSE IF c = "{" THEN
        LET j == SkipWs(s, i + 1) IN
        IF At(s, j) = "}" THEN JOk(JDict(<<>>), j + 1) ELSE ScanObject(s, j, <<>>)
    ELSE IF c = "\"" THEN ScanString(s, i + 1, <<>>)
    ELSE IF c = "0" THEN JOk(JInt(0), i + 1)
    ELSE IF c # "EOF" /\ IsDigit(c) THEN ScanNumber(s, i, 0)
    ELSE IF c = "n" THEN Literal(s, i, <<"n","u","l","l">>, JNull)
    ELSE IF c = "t" THEN Literal(s, i, <<"t","r","u","e">>, JBool(TRUE))
    ELSE IF c = "f" THEN Literal(s, i, <<"f","a","l","s","e">>, JBool(FALSE))
    ELSE JFail

\* i is the index of the next element; acc the elements read so far
ScanArray(s, i, acc) ==
    LET e == ScanValue(s, i) IN
    IF ~e.ok THEN JFail
    ELSE LET j == SkipWs(s, e.pos) IN
         IF At(s, j) = "]" THEN JOk(JList(Append(acc, e.val)), j + 1)
         ELSE IF At(s, j) = "," THEN ScanArray(s, SkipWs(s, j + 1), Append(acc, e.val))
         ELSE JFail

\* i is the index of the next member's key; acc the pairs read so far
ScanObject(s, i, acc) ==
    IF At(s, i) # "\"" THEN JFail
    ELSE LET k == ScanString(s, i + 1, <<>>) IN
         IF ~k.ok THEN JFail
         ELSE LET c == SkipWs(s, k.pos) IN
              IF At(s, c) # ":" THEN JFail
              ELSE LET e == ScanValue(s, SkipWs(s, c + 1)) IN
                   IF ~e.ok THEN JFail
                   ELSE LET j == SkipWs(s, e.pos)
                            pairs == Append(acc, <<k.val.v, e.val>>) IN
                        IF At(s, j) = "}" THEN JOk(JDict(pairs), j + 1)
                        ELSE IF At(s, j) = "," THEN ScanObject(s, SkipWs(s, j + 1), pairs)
                        ELSE JFail

\* json.loads(s): [ok |-> FALSE] stands for json.JSONDecodeError
json_loads(s) ==
    LET r == ScanValue(s, SkipWs(s, 1)) IN
    IF r.ok /\ SkipWs(s, r.pos) = Len(s) + 1 THEN r ELSE JFail


\* bool(x) of a decoded value
Truthy(x) ==
    CASE x.t = "null" -> FALSE
      [] x.t = "bool" -> x.v
      [] x.t = "int" -> x.v # 0
      [] OTHER -> x.v # <<>>

\* name in d, for a dict d
DictHas(d, name) == \E k \in 1..Len(d.v) : d.v[k][1] = name

\* d.get(name, default), for a dict d: the last pair read with that key wins
DictGet(d, name, default) ==
    IF DictHas(d, name)
    THEN LET k == CHOOSE k \in 1..Len(d.v) :
                      d.v[k][1] = name /\ \A m \in (k + 1)..Len(d.v) : d.v[m][1] # name
         IN d.v[k][2]
    ELSE default

(***************************************************************************)
(* Literals of src/bmc.py.                                                 *)
(***************************************************************************)
AI_ERROR == <<"A","I","_","E","R","R","O","R">>
SKIPPED == <<"S","k","i","p","p","e","d">>
SKIP_SIGNALS == {<<"n","/","a">>, <<"n","o","n","e">>, <<"s","k","i","p">>}
FENCE_JSON == <<BQ,BQ,BQ,"j","s","o","n">>
FENCE == <<BQ,BQ,BQ>>
KEY == <<"k","e","y">>
QUESTION == <<"q","u","e","s","t","i","o","n">>
COVERAGE_POINTS == <<"c","o","v","e","r","a","g","e","_","p","o","i","n","t","s">>
EXAMPLES == <<"e","x","a","m","p","l","e","s">>
MSG_NOT_INITIALIZED == <<"A","I","_","E","R","R","O","R",":"," ","M","o","d","e","l"," ","n","o","t"," ","i","n","i","t","i","a","l","i","z","e","d","."," ","P","l","e","a","s","e"," ","e","n","s","u","r","e"," ","C","e","l","l"," ","1"," ","e","x","e","c","u","t","e","d"," ","c","o","r","r","e","c","t","l","y",".">>
MSG_BLOCKED_PRE == <<"A","I","_","E","R","R","O","R",":"," ","Y","o","u","r"," ","p","r","o","m","p","t"," ","w","a","s"," ","b","l","o","c","k","e","d"," ","f","o","r"," ","s","a","f","e","t","y"," ","r","e","a","s","o","n","s"," ","(">>
MSG_BLOCKED_POST == <<")","."," ","P","l","e","a","s","e"," ","r","e","p","h","r","a","s","e"," ","y","o","u","r"," ","i","n","p","u","t",".">>
MSG_INCOMPLETE == <<"A","I","_","E","R","R","O","R",":"," ","R","e","c","e","i","v","e","d"," ","a","n"," ","i","n","c","o","m","p","l","e","t","e"," ","r","e","s","p","o","n","s","e"," ","f","r","o","m"," ","t","h","e"," ","m","o","d","e","l","."," ","P","l","e","a","s","e"," ","t","r","y"," ","a","g","a","i","n",".">>
MSG_UNEXPECTED_PRE == <<"A","I","_","E","R","R","O","R",":"," ","A","n"," ","u","n","e","x","p","e","c","t","e","d"," ","e","r","r","o","r"," ","o","c","c","u","r","r","e","d",":"," ">>
MSG_UNEXPECTED_POST == <<"."," ","P","l","e","a","s","e"," ","c","h","e","c","k"," ","c","o","n","s","o","l","e",".">>
\* an answer shorter than this is sent back to the user
MIN_ANSWER_LEN == 25
\* sampling temperatures of the three call sites, in tenths
TEMP_PLAN == 2
TEMP_ANALYSIS == 8
TEMP_SUGGESTIONS == 12
\* the number of blocks the planner prompt asks for
NUM_BLOCKS == 9

\* a local that has not been assigned yet (no text holds this element)
Unassigned == <<"<unassigned>">>

(***************************************************************************)
(* The completion service, as ask_gemini_sdk sees it.  A response of       *)
(* model.generate_content is                                               *)
(*   [raises, parts, text, block_reason]:                                  *)
(* raises is the type name of the exception the call (or reading the       *)
(* response) raised, <<>> if none; parts tells whether response.parts is   *)
(* non-empty; text is response.text; block_reason is the name of           *)
(* prompt_feedback.block_reason, <<>> when there is none (or it is the     *)
(* falsy BLOCK_REASON_UNSPECIFIED).                                        *)
(***************************************************************************)
\* the same with the block reason left out of the message
ask_gemini_sdk_no_reason(m, response) ==
    IF m = "None" THEN MSG_NOT_INITIALIZED
    ELSE IF response.raises # <<>>
         THEN MSG_UNEXPECTED_PRE \o response.raises \o MSG_UNEXPECTED_POST
    ELSE IF response.parts THEN Strip(response.text)
    ELSE IF response.block_reason # <<>>
         THEN MSG_BLOCKED_PRE \o MSG_BLOCKED_POST
    ELSE MSG_INCOMPLETE

ask_gemini_sdk(m, response) ==
    IF m = "None" THEN MSG_NOT_INITIALIZED
    ELSE IF response.raises # <<>>
         THEN MSG_UNEXPECTED_PRE \o response.raises \o MSG_UNEXPECTED_POST
    ELSE IF response.parts THEN Strip(response.text)
    ELSE IF response.block_reason # <<>>
         THEN MSG_BLOCKED_PRE \o response.block_reason \o MSG_BLOCKED_POST
    ELSE MSG_INCOMPLETE

(***************************************************************************)
(* generate_question_plan, from the text ask_gemini_sdk returned.          *)
(***************************************************************************)
\* name in item: "True", "False", or "TypeError" when item is no container
PyIn(name, item) ==
    CASE item.t = "dict" -> IF DictHas(item, name) THEN "True" ELSE "False"
      [] item.t = "str" -> IF Contains(item.v, name) THEN "True" ELSE "False"
      [] item.t = "list" ->
            IF \E k \in 1..Len(item.v) : item.v[k].t = "str" /\ item.v[k].v = name
            THEN "True" ELSE "False"
      [] OTHER -> "TypeError"

\* 'key' in item and 'question' in item and 'coverage_points' in item
HasRequiredKeys(item) ==
    IF PyIn(KEY, item) = "TypeError" THEN "TypeError"
    ELSE IF PyIn(KEY, item) = "True" /\ PyIn(QUESTION, item) = "True"
            /\ PyIn(COVERAGE_POINTS, item) = "True"
         THEN "True" ELSE "False"

RECURSIVE AllHaveRequiredKeys(_)
\* all(... for item in question_plan): stops at the first False, raises at the
\* first item that is no container
AllHaveRequiredKeys(items) ==
    IF items = <<>> THEN "True"
    ELSE IF HasRequiredKeys(Head(items)) = "True" THEN AllHaveRequiredKeys(Tail(items))
    ELSE HasRequiredKeys(Head(items))

\* the same without the rstrip of the closing fence
cleaned_json_text_no_rstrip(response_text) ==
    Strip(LStripSet(Strip(response_text), CharSet(FENCE_JSON)))

\* response_text.strip().lstrip("```json").rstrip("```").strip()
cleaned_json_text(response_text) ==
    Strip(RStripSet(LStripSet(Strip(response_text), CharSet(FENCE_JSON)), CharSet(FENCE)))

\* The result is [plan, title, shows, caught, raised]: plan is the list returned
\* (<<>> for []), title the title of the last box shown, shows the completion
\* text interpolated into that box, caught the type of the exception the handler
\* of line 210 caught, raised the exception that leaves the function ("" if none).
PlanResult(plan, title, shows, caught, raised) ==
    [plan |-> plan, title |-> title, shows |-> shows, caught |-> caught, raised |-> raised]

generate_question_plan(response_text) ==
    IF Contains(response_text, AI_ERROR)
    THEN PlanResult(<<>>, "Chyba Planu", response_text, "", "")
    ELSE LET d == json_loads(cleaned_json_text(response_text)) IN
         IF ~d.ok THEN PlanResult(<<>>, "Chyba Zpracovani", <<>>, "JSONDecodeError", "")
         ELSE IF d.val.t # "list"
              THEN PlanResult(<<>>, "Chyba Zpracovani", <<>>, "ValueError", "")
         ELSE CASE AllHaveRequiredKeys(d.val.v) = "True" ->
                       PlanResult(d.val.v, "Plan Pripraven", <<>>, "", "")
                [] AllHaveRequiredKeys(d.val.v) = "False" ->
                       PlanResult(<<>>, "Chyba Zpracovani", <<>>, "ValueError", "")
                [] OTHER -> PlanResult(<<>>, "Priprava Planu", <<>>, "", "TypeError")

(***************************************************************************)
(* Presenting a plan item: the status line of conduct_dynamic_bmc_analysis *)
(* and user_prompt_box, up to the call of input().                         *)
(***************************************************************************)
\* for point in coverage_points: textwrap.fill(point, ...)
CoveragePointsFault(cp) ==
    IF ~Truthy(cp) THEN ""
    ELSE CASE cp.t \in {"str", "dict"} -> ""
           [] cp.t = "list" ->
                 IF \A k \in 1..Len(cp.v) : cp.v[k].t = "str" THEN "" ELSE "AttributeError"
           [] OTHER -> "TypeError"

\* ', '.join(it_examples)
ExamplesFault(ex) ==
    IF ~Truthy(ex) THEN ""
    ELSE CASE ex.t \in {"str", "dict"} -> ""
           [] ex.t = "list" ->
                 IF \A k \in 1..Len(ex.v) : ex.v[k].t = "str" THEN "" ELSE "TypeError"
           [] OTHER -> "TypeError"

\* the exception presenting config raises before input() is called, "" if none
PresentFault(config) ==
    IF config.t # "dict" THEN "AttributeError"
    ELSE IF DictGet(config, KEY, JStr(<<>>)).t # "str" THEN "AttributeError"
    ELSE IF CoveragePointsFault(DictGet(config, COVERAGE_POINTS, JList(<<>>))) # ""
         THEN CoveragePointsFault(DictGet(config, COVERAGE_POINTS, JList(<<>>)))
    ELSE ExamplesFault(DictGet(config, EXAMPLES, JList(<<>>)))

(***************************************************************************)
(* One pass of the loop of get_user_input_with_llm_validation, on the line *)
(* input() returned: [returns, value, title]; title is the title of the box *)
(* the pass shows ("" when it shows none).                                 *)
(***************************************************************************)
\* the same pass with the length taken of the line as typed, not of the
\* stripped line
get_user_input_length_unstripped(user_response) ==
    LET user_response_stripped == Strip(user_response) IN
    IF Lower(user_response_stripped) \in SKIP_SIGNALS
    THEN [returns |-> TRUE, value |-> SKIPPED, title |-> "Acknowledged"]
    ELSE IF Len(user_response) < MIN_ANSWER_LEN
    THEN [returns |-> FALSE, value |-> <<>>, title |-> "digging deeper..."]
    ELSE [returns |-> TRUE, value |-> user_response_stripped, title |-> ""]

get_user_input_with_llm_validation(user_response) ==
    LET user_response_stripped == Strip(user_response) IN
    IF Lower(user_response_stripped) \in SKIP_SIGNALS
    THEN [returns |-> TRUE, value |-> SKIPPED, title |-> "Acknowledged"]
    ELSE IF Len(user_response_stripped) < MIN_ANSWER_LEN
    THEN [returns |-> FALSE, value |-> <<>>, title |-> "digging deeper..."]
    ELSE [returns |-> TRUE, value |-> user_response_stripped, title |-> ""]

(***************************************************************************)
(* bmc_data: a dict, kept as the sequence of its entries in insertion      *)
(* order.                                                                  *)
(***************************************************************************)
\* bmc_data[key] = value
DictSet(d, key, value) ==
    IF \E k \in 1..Len(d) : d[k].key = key
    THEN [k \in 1..Len(d) |-> IF d[k].key = key THEN [key |-> key, value |-> value] ELSE d[k]]
    ELSE Append(d, [key |-> key, value |-> value])

\* an entry filter that looks for the sentinel in lower case
IsAnswered_lowercase(entry) == entry.value # <<"s","k","i","p","p","e","d">>

IsAnswered(entry) == entry.value # SKIPPED

\* f"- {key}: {value}"
EntryLine(entry) == <<"-", " ">> \o entry.key \o <<":", " ">> \o entry.value

\* "\n".join([f"- {key}: {value}" for key, value in bmc_data.items() if value != "Skipped"])
bmc_data_string(d) ==
    LET kept == SelectSeq(d, IsAnswered) IN
    Join([k \in 1..Len(kept) |-> EntryLine(kept[k])], <<"\n">>)

\* the second block built without the filter on the sentinel
bmc_summary_str_unfiltered(d) ==
    Join([k \in 1..Len(d) |-> <<"-", " ">> \o d[k].key \o <<":", " ">> \o d[k].value], <<"\n">>)

\* run_main_session builds the block a second time, for the suggestions prompt
bmc_summary_str(d) ==
    LET kept == SelectSeq(d, LAMBDA e : e.value # SKIPPED) IN
    Join([k \in 1..Len(kept) |-> <<"-", " ">> \o kept[k].key \o <<":", " ">> \o kept[k].value],
         <<"\n">>)

\* the prompts, as the parts their f-strings put together
analysis_prompt(d) ==
    [persona |-> "LLM_DEEP_ANALYSIS_PERSONA_V2", data |-> bmc_data_string(d),
     analysis |-> <<>>]

suggestion_prompt(bmc_data_str, analysis_summary) ==
    [persona |-> "LLM_INNOVATION_SUGGESTION_PERSONA_V2", data |-> bmc_data_str,
     analysis |-> analysis_summary]

\* a planner prompt that embeds a text typed by the user
planner_prompt_with_context ==
    [persona |-> "LLM_EXPERT_QUESTION_PLANNER", data |-> <<"c","o","n","t","e","x","t">>,
     analysis |-> <<>>]

planner_prompt ==
    [persona |-> "LLM_EXPERT_QUESTION_PLANNER", data |-> <<>>, analysis |-> <<>>]

(***************************************************************************)
(* The environment: what initialisation meets, the responses of the        *)
(* completion service, and the lines the user types.                       *)
(***************************************************************************)
\* os.getenv finds a key or not; genai.list_models / the priority search /
\* the GenerativeModel constructor end in one of these ways
InitEnvs ==
    [api_key : BOOLEAN,
     init : {"ok", "list_models raises", "no priority model", "constructor raises"}]

OkResponse(text) == [raises |-> <<>>, parts |-> TRUE, text |-> text, block_reason |-> <<>>]
Blocked(reason) == [raises |-> <<>>, parts |-> FALSE, text |-> <<>>, block_reason |-> reason]
Incomplete == [raises |-> <<>>, parts |-> FALSE, text |-> <<>>, block_reason |-> <<>>]
Raised(type) == [raises |-> type, parts |-> FALSE, text |-> <<>>, block_reason |-> <<>>]

BLOCK_SAFETY == <<"S","A","F","E","T","Y">>
BLOCK_OTHER == <<"O","T","H","E","R">>
FailureResponses ==
    {Blocked(BLOCK_SAFETY), Blocked(BLOCK_OTHER), Incomplete, Raised(<<"R","e","s","o","u","r","c","e","E","x","h","a","u","s","t","e","d">>)}

\* completions of the analysis and suggestions calls: a text with surrounding
\* whitespace, a text of whitespace only, and the failures
ResultResponses ==
    {OkResponse(<<" "," ","#","#"," ","R","e","s","u","l","t","\n">>), OkResponse(<<" ","\n">>), Blocked(BLOCK_SAFETY), Raised(<<"R","e","s","o","u","r","c","e","E","x","h","a","u","s","t","e","d">>)}

RECURSIVE Dumps(_)
\* the JSON text of a decoded value (how the enumerated plan texts are written)
Dumps(x) ==
    CASE x.t = "null" -> <<"n","u","l","l">>
      [] x.t = "bool" -> IF x.v THEN <<"t","r","u","e">> ELSE <<"f","a","l","s","e">>
      [] x.t = "int" -> <<Digits[x.v + 1]>>
      [] x.t = "str" -> <<"\"">> \o x.v \o <<"\"">>
      [] x.t = "list" ->
            <<"[">> \o Join([k \in 1..Len(x.v) |-> Dumps(x.v[k])], <<",", " ">>) \o <<"]">>
      [] OTHER ->
            <<"{">> \o Join([k \in 1..Len(x.v) |->
                                <<"\"">> \o x.v[k][1] \o <<"\"", ":", " ">> \o Dumps(x.v[k][2])],
                            <<",", " ">>) \o <<"}">>

\* an item as the planner prompt describes it
GoodItem(key, question) ==
    JDict(<< <<KEY, JStr(key)>>, <<QUESTION, JStr(question)>>,
             <<COVERAGE_POINTS, JList(<<JStr(<<"W","h","i","c","h"," ","s","e","g","m","e","n","t","?">>)>>)>>,
             <<EXAMPLES, JList(<<JStr(<<"S","O","C">>)>>)>> >>)

\* the same with some of its members replaced or left out
ItemWith(key, cp_name, cp, examples) ==
    JDict(<< <<KEY, key>>, <<QUESTION, JStr(<<"W","h","y","?">>)>>, <<cp_name, cp>> >> \o examples)

ItemA == GoodItem(<<"c","h","a","n","n","e","l","s">>, <<"H","o","w"," ","d","o"," ","y","o","u"," ","r","e","a","c","h"," ","c","u","s","t","o","m","e","r","s","?">>)
ItemB == GoodItem(<<"k","e","y","_","p","a","r","t","n","e","r","s">>, <<"W","h","o"," ","a","r","e"," ","y","o","u","r"," ","p","a","r","t","n","e","r","s","?">>)
\* a second item that carries the key of ItemA
ItemA2 == GoodItem(<<"c","h","a","n","n","e","l","s">>, <<"W","h","i","c","h"," ","c","h","a","n","n","e","l","s"," ","w","o","r","k"," ","b","e","s","t","?">>)
GoodItems == {ItemA, ItemB, ItemA2}

SomeExamples == << <<EXAMPLES, JList(<<JStr(<<"S","O","C">>)>>)>> >>
SomePoints == JList(<<JStr(<<"W","h","i","c","h"," ","s","e","g","m","e","n","t","?">>)>>)
NoExamplesItem == ItemWith(JStr(<<"c","o","s","t">>), COVERAGE_POINTS, SomePoints, <<>>)
NoPointsItem == JDict(<< <<KEY, JStr(<<"c","o","s","t">>)>>, <<QUESTION, JStr(<<"W","h","y","?">>)>> >> \o SomeExamples)
CamelItem == ItemWith(JStr(<<"c","o","s","t">>), <<"c","o","v","e","r","a","g","e","P","o","i","n","t","s">>, SomePoints, SomeExamples)
IntKeyItem == ItemWith(JInt(7), COVERAGE_POINTS, SomePoints, SomeExamples)
IntPointsItem == ItemWith(JStr(<<"c","o","s","t">>), COVERAGE_POINTS, JInt(5), SomeExamples)
TextPointsItem == ItemWith(JStr(<<"c","o","s","t">>), COVERAGE_POINTS, JStr(<<"m","a","r","g","i","n">>), SomeExamples)
IntExamplesItem ==
    ItemWith(JStr(<<"c","o","s","t">>), COVERAGE_POINTS, SomePoints, << <<EXAMPLES, JList(<<JInt(1)>>)>> >>)
TextItem == JStr(<<"k","e","y"," ","q","u","e","s","t","i","o","n"," ","c","o","v","e","r","a","g","e","_","p","o","i","n","t","s">>)
ListItem == JList(<<JStr(KEY), JStr(QUESTION), JStr(COVERAGE_POINTS)>>)
OddItems ==
    {NoExamplesItem, NoPointsItem, CamelItem, IntKeyItem, IntPointsItem, TextPointsItem,
     IntExamplesItem, TextItem, ListItem, JInt(1), JNull, JDict(<<>>)}

RECURSIVE SeqsUpTo(_, _)
\* the sequences over S of length at most n
SeqsUpTo(S, n) ==
    IF n = 0 THEN {<<>>}
    ELSE LET shorter == SeqsUpTo(S, n - 1) IN
         shorter \cup {Append(q, x) : q \in shorter, x \in S}

\* the decoded values the enumerated completion texts hold: plans of items as
\* the prompt describes them, plans with one odd item, other JSON values
SmallPlans ==
    {JList(q) : q \in SeqsUpTo(GoodItems, MaxPlanLen)}
    \cup {JList(<<x>>) : x \in OddItems}
    \cup {JList(<<ItemA, x>>) : x \in OddItems}
    \cup {JList(<<x, ItemA>>) : x \in OddItems}
    \cup {JList(<<JDict(<<>>), JInt(1)>>)}
OtherValues == {ItemA, JNull, JInt(5), JStr(<<"p","l","a","n">>), JList(<<GoodItem(AI_ERROR, <<"W","h","y","?">>)>>)}

BlockKey(n) == <<"b", Digits[n + 1]>>
\* the plan the prompt asks for: one item for each of the nine blocks
NinePlan == JList([n \in 1..NUM_BLOCKS |-> GoodItem(BlockKey(n), <<"W","h","y","?">>)])
\* nine items, the second of them a text instead of an object
NinePlanOdd == JList([n \in 1..NUM_BLOCKS |-> IF n = 2 THEN TextItem ELSE GoodItem(BlockKey(n), <<"W","h","y","?">>)])

FencedJson(text) == FENCE_JSON \o <<"\n">> \o text \o <<"\n">> \o FENCE
FencedBare(text) == FENCE \o <<"\n">> \o text \o <<"\n">> \o FENCE
FencedUpper(text) == <<BQ,BQ,BQ,"J","S","O","N","\n">> \o text \o <<"\n">> \o FENCE

\* texts that are no JSON
MalformedTexts ==
    {<<>>, <<"[">>, <<"[","{","\"","k","e","y","\"",":"," ","\"","c","h","a","n","n","e","l","s","\"">>, <<"[","1",",","]">>, <<"[","]"," ","a","n","d"," ","m","o","r","e">>, <<"H","e","r","e"," ","i","s"," ","t","h","e"," ","p","l","a","n",":"," ","[","]">>,
     <<"[","{","'","k","e","y","'",":"," ","'","c","h","a","n","n","e","l","s","'","}","]">>, FencedJson(<<"[">>), FencedJson(<<"[","{","\"","k","e","y","\""," ","\"","c","h","a","n","n","e","l","s","\"","}","]">>)}

\* the texts the plan completion returns
PlanTexts ==
    {Dumps(x) : x \in SmallPlans \cup OtherValues}
    \cup {FencedJson(Dumps(x)) : x \in SmallPlans \cup OtherValues}
    \cup {FencedBare(Dumps(x)) : x \in SmallPlans}
    \cup {<<" ", "\n">> \o FencedJson(Dumps(x)) \o <<"\n">> : x \in SmallPlans}
    \cup {FencedUpper(Dumps(ItemA)), FencedUpper(Dumps(JList(<<ItemA>>)))}
    \cup {FencedJson(Dumps(NinePlan)), FencedJson(Dumps(NinePlanOdd))}
    \cup MalformedTexts

PlanResponses == {OkResponse(t) : t \in PlanTexts} \cup FailureResponses

RECURSIVE Rep(_, _)
Rep(c, n) == IF n = 0 THEN <<>> ELSE <<c>> \o Rep(c, n - 1)

\* the lines the user types at a question
UserInputs ==
    {<<" "," ","S","K","I","P"," ">>, <<"N","/","A">>, <<"N","o","n","e">>, SKIPPED, <<>>, <<"o","u","r"," ","r","e","s","e","l","l","e","r","s">>,
     Rep("x", MIN_ANSWER_LEN - 1),
     <<" ", " ">> \o Rep("x", MIN_ANSWER_LEN - 1) \o <<" ", " ">>,
     Rep("y", MIN_ANSWER_LEN),
     <<" ">> \o Rep("y", MIN_ANSWER_LEN) \o <<" ", " ">>}

(***************************************************************************)
(* The state of one run of the script.                                     *)
(*                                                                         *)
(* pc is where the script stands: "main" before line 284 runs; at a call   *)
(* of model.generate_content that has not returned ("PlanGeneration",      *)
(* "Analysis", "Suggestions"); at a call of input() that has not returned  *)
(* ("Questioning": line 125, "Continue": line 271); or ended: "Done"       *)
(* (line 282 reached), "NoPlan" (the return of line 263), "CriticalError"  *)
(* (the handler of line 321), "Uncaught" (the raise of line 291).          *)
(* The user always types a line: input() returns.                          *)
(***************************************************************************)
VARIABLES
    pc,
    model,              \* the global model: "None" or "GenerativeModel"
    raised,             \* the type of the exception that ended the run, "" if none
    calls,              \* the calls of model.generate_content so far: [temperature, prompt]
    responses,          \* what those calls returned (or raised), in order
    response_text,      \* generate_question_plan's local
    plan_box,           \* the last box generate_question_plan showed: [title, shows, caught]
    question_plan,      \* run_main_session's local
    i,                  \* the number of plan items the loop of line 218 has completed
    bmc_data,           \* conduct_dynamic_bmc_analysis's local
    user_response,      \* the line input() returned last at a question
    prompted,           \* whether user_prompt_box has asked the user anything yet
    last_box,           \* the title of the last box ai_box showed
    analysis_result,    \* run_main_session's local
    suggestions_result, \* run_main_session's local
    llm_output          \* what display_llm_output has shown: [title, text]

vars == <<pc, model, raised, calls, responses, response_text, plan_box, question_plan, i, bmc_data,
          user_response, prompted, last_box, analysis_result, suggestions_result, llm_output>>

Init ==
    /\ pc = "main"
    /\ model = "None"
    /\ raised = ""
    /\ calls = <<>>
    /\ responses = <<>>
    /\ response_text = Unassigned
    /\ plan_box = [title |-> "", shows |-> <<>>, caught |-> ""]
    /\ question_plan = <<>>
    /\ i = 0
    /\ bmc_data = <<>>
    /\ user_response = Unassigned
    /\ prompted = FALSE
    /\ last_box = ""
    /\ analysis_result = Unassigned
    /\ suggestions_result = Unassigned
    /\ llm_output = <<>>

Call(temperature, prompt) == [temperature |-> temperature, prompt |-> prompt]

\* __main__ with the search for a model in a try block of its own: a failed
\* search is reported and the session is started all the same
Main_sessionAfterFailedInit(env) ==
    /\ pc = "main"
    /\ IF ~env.api_key
       THEN /\ pc' = "Uncaught"
            /\ raised' = "ValueError"
            /\ UNCHANGED <<model, calls, plan_box, last_box>>
       ELSE /\ model' = IF env.init = "ok" THEN "GenerativeModel" ELSE "None"
            /\ last_box' = "Priprava Planu"
            /\ plan_box' = [title |-> "Priprava Planu", shows |-> <<>>, caught |-> ""]
            /\ calls' = Append(calls, Call(TEMP_PLAN, planner_prompt))
            /\ pc' = "PlanGeneration"
            /\ UNCHANGED raised
    /\ UNCHANGED <<responses, response_text, question_plan, i, bmc_data, user_response,
                   prompted, analysis_result, suggestions_result, llm_output>>

\* __main__ with the session in a loop: a run that has reached line 282 starts
\* over, its locals kept
Main_restartable(env) ==
    /\ pc \in {"main", "Done"}
    /\ IF ~env.api_key
       THEN /\ pc' = "Uncaught"
            /\ raised' = "ValueError"
            /\ UNCHANGED <<model, calls, plan_box, last_box>>
       ELSE IF env.init # "ok"
       THEN /\ pc' = "CriticalError"
            /\ raised' = IF env.init = "no priority model" THEN "ValueError" ELSE "Exception"
            /\ UNCHANGED <<model, calls, plan_box, last_box>>
       ELSE /\ model' = "GenerativeModel"
            /\ last_box' = "Priprava Planu"
            /\ plan_box' = [title |-> "Priprava Planu", shows |-> <<>>, caught |-> ""]
            /\ calls' = Append(calls, Call(TEMP_PLAN, planner_prompt))
            /\ pc' = "PlanGeneration"
            /\ UNCHANGED raised
    /\ UNCHANGED <<responses, response_text, question_plan, i, bmc_data, user_response,
                   prompted, analysis_result, suggestions_result, llm_output>>

\* __main__: configuration, the search for a model, then run_main_session up to
\* the plan call of generate_question_plan
Main(env) ==
    /\ pc = "main"
    /\ IF ~env.api_key
       THEN /\ pc' = "Uncaught"
            /\ raised' = "ValueError"
            /\ UNCHANGED <<model, calls, plan_box, last_box>>
       ELSE IF env.init # "ok"
       THEN /\ pc' = "CriticalError"
            /\ raised' = IF env.init = "no priority model" THEN "ValueError" ELSE "Exception"
            /\ UNCHANGED <<model, calls, plan_box, last_box>>
       ELSE /\ model' = "GenerativeModel"
            /\ last_box' = "Priprava Planu"
            /\ plan_box' = [title |-> "Priprava Planu", shows |-> <<>>, caught |-> ""]
            /\ calls' = Append(calls, Call(TEMP_PLAN, planner_prompt))
            /\ pc' = "PlanGeneration"
            /\ UNCHANGED raised
    /\ UNCHANGED <<responses, response_text, question_plan, i, bmc_data, user_response,
                   prompted, analysis_result, suggestions_result, llm_output>>

\* the plan call returns: the rest of generate_question_plan, the check of
\* line 261, and conduct_dynamic_bmc_analysis up to its first input()
PlanReturns(response) ==
    /\ pc = "PlanGeneration"
    /\ responses' = Append(responses, response)
    /\ LET text == ask_gemini_sdk(model, response)
           g == generate_question_plan(text)
       IN /\ response_text' = text
          /\ plan_box' = [title |-> g.title, shows |-> g.shows, caught |-> g.caught]
          /\ IF g.raised # ""
             THEN /\ pc' = "CriticalError"
                  /\ raised' = g.raised
                  /\ last_box' = g.title
                  /\ UNCHANGED <<question_plan, prompted>>
             ELSE IF g.plan = <<>>
             THEN /\ pc' = "NoPlan"
                  /\ last_box' = "Chyba Spusteni"
                  /\ UNCHANGED <<question_plan, raised, prompted>>
             ELSE /\ question_plan' = g.plan
                  /\ IF PresentFault(g.plan[1]) # ""
                     THEN /\ pc' = "CriticalError"
                          /\ raised' = PresentFault(g.plan[1])
                          /\ last_box' = "Jdeme na to!"
                          /\ UNCHANGED prompted
                     ELSE /\ pc' = "Questioning"
                          /\ prompted' = TRUE
                          /\ last_box' = "Jdeme na to!"
                          /\ UNCHANGED raised
    /\ UNCHANGED <<model, calls, i, bmc_data, user_response, analysis_result,
                   suggestions_result, llm_output>>

\* the same step with the loop of line 218 ending one item early
Answer_oneItemEarly(line) ==
    /\ pc = "Questioning"
    /\ user_response' = line
    /\ LET r == get_user_input_with_llm_validation(line)
           config == question_plan[i + 1]
           data == DictSet(bmc_data, DictGet(config, KEY, JStr(<<>>)).v, r.value)
       IN IF ~r.returns
          THEN /\ last_box' = r.title
               /\ UNCHANGED <<pc, raised, calls, i, bmc_data>>
          ELSE /\ bmc_data' = data
               /\ i' = i + 1
               /\ IF i + 2 >= Len(question_plan)
                  THEN /\ last_box' = "Hotovo!"
                       /\ calls' = Append(calls, Call(TEMP_ANALYSIS, analysis_prompt(data)))
                       /\ pc' = "Analysis"
                       /\ UNCHANGED raised
                  ELSE /\ last_box' = r.title
                       /\ IF PresentFault(question_plan[i + 2]) # ""
                          THEN /\ pc' = "CriticalError"
                               /\ raised' = PresentFault(question_plan[i + 2])
                          ELSE /\ pc' = "Questioning"
                               /\ UNCHANGED raised
                       /\ UNCHANGED calls
    /\ UNCHANGED <<model, responses, response_text, plan_box, question_plan, prompted,
                   analysis_result, suggestions_result, llm_output>>

\* the user answers the question asked: one pass of the loop of
\* get_user_input_with_llm_validation and, when it returns, line 226 and the
\* loop of conduct_dynamic_bmc_analysis up to the next input(), or, after the
\* last item, perform_llm_bmc_analysis up to its call
Answer(line) ==
    /\ pc = "Questioning"
    /\ user_response' = line
    /\ LET r == get_user_input_with_llm_validation(line)
           config == question_plan[i + 1]
           data == DictSet(bmc_data, DictGet(config, KEY, JStr(<<>>)).v, r.value)
       IN IF ~r.returns
          THEN /\ last_box' = r.title
               /\ UNCHANGED <<pc, raised, calls, i, bmc_data>>
          ELSE /\ bmc_data' = data
               /\ i' = i + 1
               /\ IF i + 1 = Len(question_plan)
                  THEN /\ last_box' = "Hotovo!"
                       /\ calls' = Append(calls, Call(TEMP_ANALYSIS, analysis_prompt(data)))
                       /\ pc' = "Analysis"
                       /\ UNCHANGED raised
                  ELSE /\ last_box' = r.title
                       /\ IF PresentFault(question_plan[i + 2]) # ""
                          THEN /\ pc' = "CriticalError"
                               /\ raised' = PresentFault(question_plan[i + 2])
                          ELSE /\ pc' = "Questioning"
                               /\ UNCHANGED raised
                       /\ UNCHANGED calls
    /\ UNCHANGED <<model, responses, response_text, plan_box, question_plan, prompted,
                   analysis_result, suggestions_result, llm_output>>

\* the analysis call returns, and a failure text ends the session
AnalysisReturns_abortOnFailure(response) ==
    /\ pc = "Analysis"
    /\ responses' = Append(responses, response)
    /\ analysis_result' = ask_gemini_sdk(model, response)
    /\ llm_output' = Append(llm_output, [title |-> "Faze 3: Strategicka Analyza",
                                         text |-> ask_gemini_sdk(model, response)])
    /\ last_box' = "Faze 3: Strategicka Analyza"
    /\ pc' = IF Contains(ask_gemini_sdk(model, response), AI_ERROR) THEN "NoPlan" ELSE "Continue"
    /\ UNCHANGED <<model, raised, calls, response_text, plan_box, question_plan, i, bmc_data,
                   user_response, prompted, suggestions_result>>

\* the analysis call returns: lines 269-271, up to input()
AnalysisReturns(response) ==
    /\ pc = "Analysis"
    /\ responses' = Append(responses, response)
    /\ analysis_result' = ask_gemini_sdk(model, response)
    /\ llm_output' = Append(llm_output, [title |-> "Faze 3: Strategicka Analyza",
                                         text |-> ask_gemini_sdk(model, response)])
    /\ last_box' = "Faze 3: Strategicka Analyza"
    /\ pc' = "Continue"
    /\ UNCHANGED <<model, raised, calls, response_text, plan_box, question_plan, i, bmc_data,
                   user_response, prompted, suggestions_result>>

\* the user presses Enter: lines 274-275, up to the call of generate_llm_suggestions
PressEnter ==
    /\ pc = "Continue"
    /\ calls' = Append(calls, Call(TEMP_SUGGESTIONS,
                                   suggestion_prompt(bmc_summary_str(bmc_data), analysis_result)))
    /\ pc' = "Suggestions"
    /\ UNCHANGED <<model, raised, responses, response_text, plan_box, question_plan, i,
                   bmc_data, user_response, prompted, last_box, analysis_result,
                   suggestions_result, llm_output>>

\* the suggestions call returns, and a failure text makes the call again
SuggestionsReturns_retryOnFailure(response) ==
    /\ pc = "Suggestions"
    /\ responses' = Append(responses, response)
    /\ suggestions_result' = ask_gemini_sdk(model, response)
    /\ llm_output' = Append(llm_output, [title |-> "Faze 4: Navrhy Inovaci",
                                         text |-> ask_gemini_sdk(model, response)])
    /\ last_box' = "Sezeni Dokonceno!"
    /\ IF Contains(ask_gemini_sdk(model, response), AI_ERROR) /\ Len(calls) < 4
       THEN pc' = "Suggestions" /\ calls' = Append(calls, calls[Len(calls)])
       ELSE pc' = "Done" /\ UNCHANGED calls
    /\ UNCHANGED <<model, raised, response_text, plan_box, question_plan, i, bmc_data,
                   user_response, prompted, analysis_result>>

\* the suggestions call returns: lines 275-282
SuggestionsReturns(response) ==
    /\ pc = "Suggestions"
    /\ responses' = Append(responses, response)
    /\ suggestions_result' = ask_gemini_sdk(model, response)
    /\ llm_output' = Append(llm_output, [title |-> "Faze 4: Navrhy Inovaci",
                                         text |-> ask_gemini_sdk(model, response)])
    /\ last_box' = "Sezeni Dokonceno!"
    /\ pc' = "Done"
    /\ UNCHANGED <<model, raised, calls, response_text, plan_box, question_plan, i, bmc_data,
                   user_response, prompted, analysis_result>>

Next ==
    \/ \E env \in InitEnvs : Main(env)
    \/ \E response \in PlanResponses : PlanReturns(response)
    \/ \E line \in UserInputs : Answer(line)
    \/ \E response \in ResultResponses : AnalysisReturns(response)
    \/ PressEnter
    \/ \E response \in ResultResponses : SuggestionsReturns(response)

Spec == Init /\ [][Next]_vars

\* every call of the completion service returns (each call blocks the script
\* until it does), and the user, asked to press Enter, does
PlanStep == \E response \in PlanResponses : PlanReturns(response)
AnswerStep == \E line \in UserInputs : Answer(line)
AnalysisStep == \E response \in ResultResponses : AnalysisReturns(response)
SuggestionsStep == \E response \in ResultResponses : SuggestionsReturns(response)
FairSpec ==
    /\ Spec
    /\ WF_vars(PlanStep)
    /\ WF_vars(AnalysisStep)
    /\ WF_vars(PressEnter)
    /\ WF_vars(SuggestionsStep)

(***************************************************************************)
(* Properties.                                                             *)
(***************************************************************************)
\* a line that is a skip signal once stripped and lowered
IsSkipSignal(line) == Lower(Strip(line)) \in SKIP_SIGNALS
\* a line whose stripped length is below 25 and that is no skip signal
IsTooBrief(line) == Len(Strip(line)) < 25 /\ ~IsSkipSignal(line)

\* C1: at a question, submitting an answer whose trimmed length is below 25
\* and which is not a skip signal leaves the question index and the answer
\* record as they are, starts no call, and the same question is asked again.
C1_BriefAnswerDoesNotAdvance ==
    [][(pc = "Questioning" /\ IsTooBrief(user_response'))
        => (pc' = "Questioning" /\ i' = i /\ bmc_data' = bmc_data
            /\ question_plan' = question_plan /\ calls' = calls)]_vars

\* a too-brief answer padded to 25 characters and more was sent back at the
\* second question
C1_Witness ==
    /\ pc = "Questioning"
    /\ i = 1
    /\ user_response # Unassigned
    /\ IsTooBrief(user_response)
    /\ Len(user_response) >= 25
    /\ last_box = "digging deeper..."

\* the questioning is over: the loop of line 218 has run through the plan
QuestioningComplete == pc \in {"Analysis", "Continue", "Suggestions", "Done"}

\* the key of a plan item
KeyOf(config) == DictGet(config, KEY, JStr(<<>>)).v

\* C2: when the questioning is complete the answer record has one entry per
\* plan item, in plan order, under the item's key, and each value is the skip
\* sentinel or a text of at least 25 characters without surrounding whitespace.
C2_OneEntryPerItem ==
    QuestioningComplete =>
        /\ Len(bmc_data) = Len(question_plan)
        /\ \A k \in 1..Len(bmc_data) :
              /\ bmc_data[k].key = KeyOf(question_plan[k])
              /\ \/ bmc_data[k].value = SKIPPED
                 \/ /\ Len(bmc_data[k].value) >= 25
                    /\ Strip(bmc_data[k].value) = bmc_data[k].value

EndsWith(s, suf) == Len(s) >= Len(suf) /\ SubSeq(s, Len(s) - Len(suf) + 1, Len(s)) = suf

\* a text that opens with the fence token ```json or ``` and closes with ```
IsFenced(t) == Len(t) >= 2 * Len(FENCE) /\ StartsWith(t, FENCE) /\ EndsWith(t, FENCE)

\* the text between the fence tokens, the tokens taken as whole words
Unfenced(t) ==
    LET a == IF StartsWith(t, FENCE_JSON) THEN SubSeq(t, Len(FENCE_JSON) + 1, Len(t))
             ELSE IF StartsWith(t, FENCE) THEN SubSeq(t, Len(FENCE) + 1, Len(t))
             ELSE t
        b == IF EndsWith(a, FENCE) THEN SubSeq(a, 1, Len(a) - Len(FENCE)) ELSE a
    IN Strip(b)

\* an item that is an object with the keys line 205 asks for
IsPlanObject(item) ==
    /\ item.t = "dict"
    /\ DictHas(item, KEY) /\ DictHas(item, QUESTION) /\ DictHas(item, COVERAGE_POINTS)

\* the plan call has returned a completion text, which went on to the parsing
\* of lines 202-212, and nothing has happened since
PlanTextParsed ==
    /\ Len(responses) = 1
    /\ user_response = Unassigned
    /\ responses[1].raises = <<>>
    /\ responses[1].parts
    /\ ~Contains(responses[1].text, AI_ERROR)

\* an exception left generate_question_plan
ParserFault == pc = "CriticalError" /\ plan_box.title = "Priprava Planu"

C4_OnlyFourKeyObjectsAccepted ==
    PlanTextParsed =>
        /\ ~ParserFault
        /\ plan_box.title \in {"Plan Pripraven", "Chyba Zpracovani"}
        /\ plan_box.title = "Plan Pripraven" =>
              \A k \in 1..Len(question_plan) :
                  /\ IsPlanObject(question_plan[k])
                  /\ DictHas(question_plan[k], EXAMPLES)

\* the entry of the answer record under a key (<<>> when there is none)
EntryValue(d, key) ==
    IF \E k \in 1..Len(d) : d[k].key = key
    THEN d[CHOOSE k \in 1..Len(d) : d[k].key = key].value
    ELSE <<>>

\* the answer block of a prompt holds a line for the key: a line starts at
\* the first character and after every line feed
BlockHasKey(block, key) ==
    LET pre == <<"-", " ">> \o key \o <<":", " ">> IN
    \E p \in 1..Len(block) :
        /\ p = 1 \/ block[p - 1] = "\n"
        /\ p + Len(pre) - 1 <= Len(block)
        /\ SubSeq(block, p, p + Len(pre) - 1) = pre

\* the call just made, when it is the analysis call or the suggestions call
ResultCallMade == pc \in {"Analysis", "Suggestions"}

\* C5: a skip signal typed at a question puts the sentinel into the answer
\* record under that question's key; the answer blocks of the analysis prompt
\* and of the suggestions prompt hold no line for an entry whose value is the
\* sentinel, and hold a line for every other entry.
C5_SkippedEntryExcluded ==
    /\ [][(pc = "Questioning" /\ IsSkipSignal(user_response'))
           => EntryValue(bmc_data', KeyOf(question_plan[i + 1])) = SKIPPED]_vars
    /\ [](ResultCallMade =>
             \A k \in 1..Len(bmc_data) :
                 BlockHasKey(calls[Len(calls)].prompt.data, bmc_data[k].key)
                     <=> (bmc_data[k].value # SKIPPED))

\* both prompts were built from a record with a skipped and an answered entry
C5_Witness ==
    /\ pc = "Suggestions"
    /\ Len(calls) = 3
    /\ IsSkipSignal(user_response)
    /\ \E k \in 1..Len(bmc_data) : bmc_data[k].value = SKIPPED
    /\ \E k \in 1..Len(bmc_data) : bmc_data[k].value # SKIPPED

\* the plan call came back without parts and with a block reason
PlanBlocked ==
    /\ Len(responses) >= 1
    /\ responses[1].raises = <<>>
    /\ ~responses[1].parts
    /\ responses[1].block_reason # <<>>

\* C6: when the plan call returns a block reason the run ends at plan
\* generation: the error box shows a text that holds the block reason, no
\* question is asked, the answer record stays empty, no further call is made.
C6_BlockedPlanStops ==
    PlanBlocked =>
        /\ pc = "NoPlan"
        /\ plan_box.title = "Chyba Planu"
        /\ Contains(plan_box.shows, responses[1].block_reason)
        /\ ~prompted
        /\ user_response = Unassigned
        /\ i = 0
        /\ question_plan = <<>>
        /\ bmc_data = <<>>
        /\ Len(calls) = 1
        /\ analysis_result = Unassigned
        /\ suggestions_result = Unassigned

C6_Witness == PlanBlocked /\ responses[1].block_reason = BLOCK_OTHER /\ pc = "NoPlan"

\* a call of the completion service that failed: it raised, or came back
\* without parts
IsFailure(r) == r.raises # <<>> \/ ~r.parts

\* the text ask_gemini_sdk hands back for a failed call names the failure
IsFailureText(text, r) ==
    /\ StartsWith(text, AI_ERROR)
    /\ r.raises # <<>> => Contains(text, r.raises)
    /\ (r.raises = <<>> /\ r.block_reason # <<>>) => Contains(text, r.block_reason)

\* C7: once the analysis call is made the session reaches Done; the result of
\* a failed analysis call or suggestions call is the failure text, it is the
\* text displayed, the suggestions call is made after a failed analysis call
\* with that text in its prompt, and no exception ends the session.
C7_AnalysisAlwaysReachesDone ==
    /\ (pc = "Analysis") ~> (pc = "Done")
    /\ [](pc \in {"Continue", "Suggestions", "Done"} =>
            /\ raised = ""
            /\ llm_output[1].text = analysis_result
            /\ IsFailure(responses[2]) => IsFailureText(analysis_result, responses[2])
            /\ pc # "Continue" =>
                  /\ Len(calls) = 3
                  /\ calls[3].prompt.analysis = analysis_result)
    /\ [](pc = "Done" =>
            /\ llm_output[2].text = suggestions_result
            /\ IsFailure(responses[3]) => IsFailureText(suggestions_result, responses[3]))

\* the session is done after both calls failed
C7_Witness ==
    /\ pc = "Done"
    /\ responses[2].block_reason = BLOCK_SAFETY
    /\ responses[3].raises # <<>>
    /\ StartsWith(analysis_result, AI_ERROR)
    /\ StartsWith(suggestions_result, AI_ERROR)

\* the run has ended
Ended == pc \in {"Done", "NoPlan", "CriticalError", "Uncaught"}

\* C8: with a plan of nine items the session ends in Done, the index at nine,
\* the analysis result and the suggestions result both non-empty texts.
C8_NinePlanEndsDone ==
    (Len(question_plan) = 9 /\ Ended) =>
        /\ pc = "Done"
        /\ i = 9
        /\ analysis_result \notin {Unassigned, <<>>}
        /\ suggestions_result \notin {Unassigned, <<>>}

C10_NoRetry ==
    /\ Len(calls) <= 3
    /\ \A n \in 1..Len(calls) :
          /\ calls[n].temperature = <<2, 8, 12>>[n]
          /\ calls[n].prompt.persona = <<"LLM_EXPERT_QUESTION_PLANNER",
                                         "LLM_DEEP_ANALYSIS_PERSONA_V2",
                                         "LLM_INNOVATION_SUGGESTION_PERSONA_V2">>[n]
    /\ Len(responses) <= Len(calls)
    /\ Len(calls) <= Len(responses) + 1
    /\ (Len(responses) >= 1 /\ IsFailure(responses[1])) => Len(calls) = 1

\* three calls were made, the second and the third failed, and the run is over
C10_Witness ==
    /\ pc = "Done"
    /\ Len(calls) = 3
    /\ IsFailure(responses[2])
    /\ IsFailure(responses[3])

\* a step of the script that takes the session back to where it started, the
\* answer record, the plan and both results empty again
ResetStep ==
    /\ Next
    /\ pc' = "main"
    /\ i' = 0
    /\ question_plan' = <<>>
    /\ bmc_data' = <<>>
    /\ analysis_result' \in {Unassigned, <<>>}
    /\ suggestions_result' \in {Unassigned, <<>>}

StageRank(p) ==
    CASE p = "main" -> 0
      [] p = "PlanGeneration" -> 1
      [] p = "Questioning" -> 2
      [] p = "Analysis" -> 3
      [] p = "Continue" -> 4
      [] p = "Suggestions" -> 5
      [] p = "Done" -> 6
      [] OTHER -> 7

\* the analysis call is among the calls made
AnalysisCallMade(cs) == \E n \in 1..Len(cs) : cs[n].prompt.persona = "LLM_DEEP_ANALYSIS_PERSONA_V2"

\* C12: the stage never moves to an earlier stage; the question index never
\* decreases and rises, by exactly one, exactly in the steps where an answer
\* or a skip is recorded; the plan does not change once questioning began; and
\* the analysis call is made only when the index equals the plan length.
C12_ForwardOnly ==
    /\ [][/\ StageRank(pc') >= StageRank(pc)
          /\ i' \in {i, i + 1}
          /\ (i' = i + 1) <=> (pc = "Questioning" /\ ~IsTooBrief(user_response'))
          /\ (i' = i + 1) =>
                EntryValue(bmc_data', KeyOf(question_plan[i + 1])) =
                    (IF IsSkipSignal(user_response') THEN SKIPPED ELSE Strip(user_response'))
          /\ pc = "Questioning" => question_plan' = question_plan
          /\ (AnalysisCallMade(calls') /\ ~AnalysisCallMade(calls)) =>
                (i' = Len(question_plan') /\ i' >= 1)]_vars
    /\ [](AnalysisCallMade(calls) => i = Len(question_plan))
    /\ [](i <= Len(question_plan))

\* the second of two questions was answered with a text, and the analysis
\* call followed
C12_Witness ==
    /\ pc = "Analysis"
    /\ i = 2
    /\ Len(question_plan) = 2
    /\ last_box = "Hotovo!"
    /\ ~IsSkipSignal(user_response)
    /\ AnalysisCallMade(calls)

\* C13: the answer record has exactly as many entries as questions were
\* completed, and no step removes an entry or changes the value of one: not a
\* too-brief rejection, not a later answer, not a failed completion call.
C13_AnswersKept ==
    /\ [](Len(bmc_data) = i)
    /\ [][\A k \in 1..Len(bmc_data) :
             k <= Len(bmc_data') /\ bmc_data'[k] = bmc_data[k]]_vars

\* the parser accepted the completion text as the plan (the box of line 206)
PlanAccepted == plan_box.title = "Plan Pripraven"

\* C14: the abort of line 262 happens only after the completion call or the
\* parser reported a failure; a text the parser accepted as the plan, of
\* whatever item count, takes the session on to the questions and the stages
\* after them.
C14_AcceptedPlanProceeds ==
    /\ pc = "NoPlan" => plan_box.title \in {"Chyba Planu", "Chyba Zpracovani"}
    /\ PlanAccepted => pc \in {"Questioning", "Analysis", "Continue", "Suggestions", "Done"}

\* C15: initialisation either gives the client and starts the session, or
\* fails (no API key, list_models raising, no priority model, the constructor
\* raising) and ends the run with the exception; while there is no client,
\* run_main_session has not been entered: no box was shown, nothing was asked
\* of the user, no completion call was made.
C15_InitFailureBeforeAnyStage ==
    /\ [][pc = "main" =>
            \/ (model' = "GenerativeModel" /\ pc' = "PlanGeneration" /\ raised' = "")
            \/ (model' = "None" /\ pc' \in {"Uncaught", "CriticalError"}
                /\ raised' \in {"ValueError", "Exception"})]_vars
    /\ [](model = "None" =>
            /\ pc \in {"main", "Uncaught", "CriticalError"}
            /\ calls = <<>>
            /\ responses = <<>>
            /\ ~prompted
            /\ user_response = Unassigned
            /\ last_box = ""
            /\ plan_box.title = ""
            /\ llm_output = <<>>
            /\ i = 0 /\ question_plan = <<>> /\ bmc_data = <<>>)

\* the constructor (or list_models) raised and the run ended in the handler of
\* line 321 with nothing shown, asked or called
C15_Witness ==
    /\ pc = "CriticalError"
    /\ model = "None"
    /\ raised = "Exception"
    /\ calls = <<>>
    /\ ~prompted

\* C16: once the plan call has returned, generate_question_plan has reported
\* a completion failure (the box of line 199) exactly when the call failed:
\* it raised or came back without parts; a completion text that was returned
\* went on to the parsing of lines 202-212, whatever it holds.
C16_FailureIffCallFailed ==
    Len(responses) >= 1 =>
        /\ (plan_box.title = "Chyba Planu") <=> IsFailure(responses[1])
        /\ ~IsFailure(responses[1]) =>
              (plan_box.title \in {"Plan Pripraven", "Chyba Zpracovani"} \/ ParserFault)

\* the block holds, from position p on, exactly the given line
LineAt(block, p, line) ==
    /\ p = 1 \/ block[p - 1] = "\n"
    /\ p + Len(line) - 1 <= Len(block)
    /\ SubSeq(block, p, p + Len(line) - 1) = line
    /\ p + Len(line) - 1 = Len(block) \/ block[p + Len(line)] = "\n"

\* the line of the answer block for an answer given under a key
AnswerLine(key, answer) == <<"-", " ">> \o key \o <<":", " ">> \o answer

\* C17: an answer the user supplied (no skip signal, stripped length at least
\* 25) is never the sentinel and is recorded under its item's key; a supplied
\* answer stays in the record while later questions are answered or skipped;
\* and when the analysis call is made the entries follow the plan order, the
\* block holds the line of every entry that is not the sentinel, in that
\* order, and no line for an entry that is.
C17_SuppliedAnswersInBlock ==
    /\ [][(pc = "Questioning" /\ i' = i + 1) =>
            /\ ~IsSkipSignal(user_response') =>
                  /\ Strip(user_response') # SKIPPED
                  /\ Len(Strip(user_response')) >= 25
                  /\ EntryValue(bmc_data', KeyOf(question_plan[i + 1])) = Strip(user_response')
            /\ \A k \in 1..Len(bmc_data) :
                  bmc_data[k].value # SKIPPED =>
                      \E m \in 1..Len(bmc_data') : bmc_data'[m] = bmc_data[k]]_vars
    /\ [](pc = "Analysis" =>
            LET block == calls[Len(calls)].prompt.data
                answered == {k \in 1..Len(bmc_data) : bmc_data[k].value # SKIPPED}
            IN /\ \A k \in 1..Len(bmc_data) : bmc_data[k].key = KeyOf(question_plan[k])
               /\ \A k \in 1..Len(bmc_data) :
                     (k \in answered) <=> BlockHasKey(block, bmc_data[k].key)
               /\ \A k \in answered :
                     \E p \in 1..Len(block) :
                         LineAt(block, p, AnswerLine(bmc_data[k].key, bmc_data[k].value))
               /\ \A a, b \in answered :
                     a < b =>
                        \E pa, pb \in 1..Len(block) :
                            /\ pa < pb
                            /\ LineAt(block, pa, AnswerLine(bmc_data[a].key, bmc_data[a].value))
                            /\ LineAt(block, pb, AnswerLine(bmc_data[b].key, bmc_data[b].value)))

\* C18: the answer block of the suggestions prompt (built at line 274) is the
\* answer block of the analysis prompt of the same run (built at line 233),
\* character for character, and the suggestions prompt holds, as its analysis
\* part, the stored analysis result: the text displayed for the analysis
\* call, which for a call that succeeded is its stripped completion text.
C18_SamePromptBlock ==
    Len(calls) = 3 =>
        /\ calls[2].prompt.persona = "LLM_DEEP_ANALYSIS_PERSONA_V2"
        /\ calls[3].prompt.persona = "LLM_INNOVATION_SUGGESTION_PERSONA_V2"
        /\ calls[3].prompt.data = calls[2].prompt.data
        /\ calls[2].prompt.analysis = <<>>
        /\ calls[3].prompt.analysis = analysis_result
        /\ calls[3].prompt.analysis = llm_output[1].text
        /\ ~IsFailure(responses[2]) => calls[3].prompt.analysis = Strip(responses[2].text)

\* both prompts were built from a record with an answered and a skipped entry,
\* after an analysis call that returned a text
C18_Witness ==
    /\ pc = "Done"
    /\ Len(calls) = 3
    /\ calls[3].prompt.data # <<>>
    /\ \E k \in 1..Len(bmc_data) : bmc_data[k].value = SKIPPED
    /\ ~IsFailure(responses[2])
    /\ calls[3].prompt.analysis # <<>>

=============================================================================
